---- MODULE Spec2Model ----
(***************************************************************************)
(* A model of backend/src/main.rs of replaylist: the three transfer        *)
(* functions (create_playlist_to_youtube / _apple / _spotify) and the      *)
(* three playlist fetchers (fetch_apple_playlists / fetch_spotify_playlists *)
(* / fetch_youtube_playlists).                                             *)
(*                                                                         *)
(* Every provider HTTP call is one step.  The provider's answer to a call  *)
(* is an input, drawn from:                                                *)
(*   "neterr"   send() fails (transport error)                             *)
(*   "badbody"  a response whose body is not JSON                          *)
(*   "reject"   a non-success status with a JSON error body                *)
(*   "expired"  401, the credential has expired, with a JSON error body    *)
(*   "nofield"  a success status whose JSON lacks the expected field       *)
(*   "ok"       a success status with the expected fields                  *)
(* `calls` / `fcalls` record every call issued, with its answer.           *)
(***************************************************************************)
EXTENDS Integers, Sequences, FiniteSets, TLC

\* ---------------------------------------------------------------- bounds
MaxTracks == 3
MaxPlaylists == 3
MaxPages == 2
PageSize == 2

\* ----------------------------------------------------------------- types
Providers == {"apple", "spotify", "youtube"}

\* Option::None
None == "None"

\* struct Track { title, artist, isrc: Option<String> }
TrackPool ==
  { [title |-> "t1", artist |-> "a1", isrc |-> "I1"],
    [title |-> "t2", artist |-> "a2", isrc |-> None] }

\* struct PlaylistItem, its tracks: Vec<Track>
RECURSIVE SeqsUpTo(_, _)
SeqsUpTo(S, n) ==
  IF n = 0 THEN {<<>>}
  ELSE LET shorter == SeqsUpTo(S, n - 1)
       IN shorter \cup { Append(s, x) : s \in { t \in shorter : Len(t) = n - 1 }, x \in S }

\* the keys the handlers keep in the cookie session
SessionKeys ==
  { "apple_user_token", "spotify_access_token", "spotify_refresh_token",
    "youtube_access_token", "youtube_refresh_token", "apple", "spotify", "youtube" }

LoggedOutSession == [k \in SessionKeys |-> None]
LoggedInSession ==
  [k \in SessionKeys |-> IF k \in {"apple", "spotify", "youtube"} THEN "true" ELSE "tok"]

\* the tokens among the session's keys
TokenKeys ==
  { "apple_user_token", "spotify_access_token", "spotify_refresh_token",
    "youtube_access_token", "youtube_refresh_token" }

\* the sessions a request arrives with: logged out, logged in everywhere, or
\* logged in with one token missing
Sessions ==
  {LoggedOutSession, LoggedInSession}
    \cup { [LoggedInSession EXCEPT ![k] = None] : k \in TokenKeys }

\* what a provider can answer
CreateResp == {"neterr", "badbody", "reject", "expired", "nofield", "ok"}
SearchResp == {"neterr", "badbody", "reject", "expired", "ok"}
AppendResp == {"neterr", "reject", "expired", "ok"}
\* the result list of a search that answered "ok": destination ids, ranked
ItemLists == { <<>>, <<"d1">>, <<"d2", "d1">> }

\* one provider call as recorded: the request (op, idx: the source track's
\* position, mode and q: the search mode and query, pl and id: the playlist
\* and destination id of an append) and the answer (resp, items)
Call(op, idx, mode, q, resp, items, pl, id) ==
  [op |-> op, idx |-> idx, mode |-> mode, q |-> q, resp |-> resp,
   items |-> items, pl |-> pl, id |-> id]

VARIABLES
  dest,         \* the transfer's destination provider
  playlist,     \* payload.playlist.tracks
  session,      \* the cookie session
  pc,           \* the transfer's position
  i,            \* the for loop's iteration, 1-based
  playlist_id,  \* the id of the destination playlist once created
  found,        \* catalog_id / uri / video_id of the current track
  calls,        \* the provider calls issued so far
  result,       \* None while running, then "Ok", "Err" or "Panic"
  fprovider,    \* the fetch's provider
  library,      \* the provider's side: the number of track pages of each playlist
  fpc,          \* the fetch's position
  fidx,         \* the position in the listing's items
  fitems,       \* the items of the listing response
  playlists,    \* the Vec<PlaylistItem> being built
  fcalls,       \* the provider calls the fetch issued
  fresult,      \* None while running, then "Ok", "Err" (500), "Unauthorized"
                \* (401) or "BadRequest" (400)
  nfield,       \* the provider field being normalised: "artist" or "cover"
  raw,          \* the field as the provider sent it (present, s)
  norm,         \* the field as the PlaylistItem carries it
  npc,          \* the normalisation's position
  invs,         \* two concurrent transfers: the locals of each invocation
  owner         \* the providers' side: owner[id] is the invocation whose
                \* create call was answered with playlist id

tvars == <<dest, playlist, session, pc, i, playlist_id, found, calls, result>>
fvars == <<fprovider, library, fpc, fidx, fitems, playlists, fcalls, fresult>>
nvars == <<nfield, raw, norm, npc>>
pvars == <<invs, owner>>
vars == <<tvars, fvars, nvars, pvars>>

\* ------------------------------------------------------- shared helpers

\* (mutant of first_id: an empty result list gives a fixed id)
first_id_or_default(items) == IF Len(items) = 0 THEN "d1" ELSE items[1]

\* (mutant of first_id: the item taken depends on the track's position)
first_id_by_position(items) ==
  IF Len(items) = 0 THEN None
  ELSE IF i % 2 = 1 THEN items[1] ELSE items[Len(items)]

\* .as_array().and_then(|arr| arr.first()).and_then(|v| v[id].as_str())
first_id(items) == IF Len(items) = 0 THEN None ELSE items[1]

\* (mutant of loop_track: the tracks visited last to first)
loop_track_reversed(k, n) == n + 1 - k

\* `for track in &playlist.tracks`: the track visited by iteration k of n
loop_track(k, n) == k

\* `?` on an Err, or the function's final Ok(())
Return(res) == pc' = "done" /\ result' = res

\* the end of one loop body: the next iteration, or Ok(()) after the last
Continue ==
  /\ i' = i + 1
  /\ found' = None
  /\ IF i + 1 > Len(playlist) THEN Return("Ok")
     ELSE pc' = "search" /\ result' = result

\* the first iteration, entered once the destination playlist exists
EnterLoop ==
  /\ i' = 1
  /\ found' = None
  /\ IF Len(playlist) = 0 THEN Return("Ok")
     ELSE pc' = "search" /\ result' = result

TransferIdle ==
  /\ dest = "apple" /\ playlist = <<>>
  /\ pc = "idle" /\ i = 0 /\ playlist_id = None /\ found = None
  /\ calls = <<>> /\ result = None

FetchIdle ==
  /\ fprovider = "apple" /\ library = <<>> /\ fpc = "idle" /\ fidx = 0
  /\ fitems = <<>> /\ playlists = <<>> /\ fcalls = <<>> /\ fresult = None

\* no field is being normalised
NormIdle ==
  /\ nfield = "artist" /\ raw = [present |-> FALSE, s |-> <<>>]
  /\ norm = <<>> /\ npc = "idle"

\* the invocations of the concurrent transfers
Invocations == {1, 2}

\* the locals of a transfer that is not running
IdleInvocation ==
  [dest |-> "apple", playlist |-> <<>>, session |-> LoggedOutSession, pc |-> "idle",
   i |-> 0, playlist_id |-> <<>>, found |-> None, result |-> None, targets |-> {}]

\* no concurrent transfers
PairIdle == invs = [p \in Invocations |-> IdleInvocation] /\ owner = <<>>

\* ------------------------------------------- create_playlist_to_youtube

\* (mutant of YoutubeStart: the missing token is not noticed)
YoutubeStartUnchecked ==
  /\ dest = "youtube" /\ pc = "start"
  /\ pc' = "create" /\ result' = result
  /\ UNCHANGED <<dest, playlist, session, i, playlist_id, found, calls, fvars, nvars, pvars>>

\* session.get("youtube_access_token")?.ok_or_else(..)?
YoutubeStart ==
  /\ dest = "youtube" /\ pc = "start"
  /\ IF session["youtube_access_token"] = None THEN Return("Err")
     ELSE pc' = "create" /\ result' = result
  /\ UNCHANGED <<dest, playlist, session, i, playlist_id, found, calls, fvars, nvars, pvars>>

\* (mutant of YoutubeCreate: the loop is entered although no id was returned)
YoutubeCreateIgnoringFailure ==
  /\ dest = "youtube" /\ pc = "create"
  /\ \E r \in CreateResp :
       /\ calls' = Append(calls, Call("create", 0, None, <<>>, r, <<>>, None, None))
       /\ IF r = "ok"
          THEN playlist_id' = "PL1" /\ EnterLoop
          ELSE IF r \in {"reject", "expired", "nofield"}
          THEN playlist_id' = playlist_id /\ EnterLoop
          ELSE Return("Err") /\ UNCHANGED <<playlist_id, i, found>>
  /\ UNCHANGED <<dest, playlist, session, fvars, nvars, pvars>>

\* POST /youtube/v3/playlists, then create_res["id"].as_str().ok_or_else(..)?
YoutubeCreate ==
  /\ dest = "youtube" /\ pc = "create"
  /\ \E r \in CreateResp :
       /\ calls' = Append(calls, Call("create", 0, None, <<>>, r, <<>>, None, None))
       /\ IF r = "ok"
          THEN playlist_id' = "PL1" /\ EnterLoop
          ELSE Return("Err") /\ UNCHANGED <<playlist_id, i, found>>
  /\ UNCHANGED <<dest, playlist, session, fvars, nvars, pvars>>

\* GET /youtube/v3/search with q = "{title} {artist}", then the first videoId
YoutubeSearch ==
  /\ dest = "youtube" /\ pc = "search"
  /\ \E r \in SearchResp, items \in ItemLists :
       LET idx == loop_track(i, Len(playlist))
           track == playlist[idx]
           video_id == IF r = "ok" THEN first_id(items) ELSE None
       IN /\ r # "ok" => items = <<>>
          /\ calls' = Append(calls, Call("search", idx, "text",
                               <<track.title, track.artist>>, r, items, None, None))
          /\ IF r \in {"neterr", "badbody"} THEN Return("Err") /\ UNCHANGED <<i, found>>
             ELSE IF video_id = None THEN Continue
             ELSE pc' = "append" /\ found' = video_id /\ UNCHANGED <<i, result>>
  /\ UNCHANGED <<dest, playlist, session, playlist_id, fvars, nvars, pvars>>

\* POST /youtube/v3/playlistItems; only send() is checked, the answer is dropped
YoutubeAppend ==
  /\ dest = "youtube" /\ pc = "append"
  /\ \E r \in AppendResp :
       /\ calls' = Append(calls, Call("append", loop_track(i, Len(playlist)), None,
                            <<>>, r, <<>>, playlist_id, found))
       /\ IF r = "neterr" THEN Return("Err") /\ UNCHANGED <<i, found>>
          ELSE Continue
  /\ UNCHANGED <<dest, playlist, session, playlist_id, fvars, nvars, pvars>>

create_playlist_to_youtube ==
  \/ YoutubeStart
  \/ YoutubeCreate
  \/ YoutubeSearch
  \/ YoutubeAppend

\* --------------------------------------------- create_playlist_to_apple

\* make_apple_dev_token()? (its env vars and key file may be missing), then
\* session.get("apple_user_token")?.ok_or_else(..)?
AppleStart ==
  /\ dest = "apple" /\ pc = "start"
  /\ \E dev_token_ok \in BOOLEAN :
       IF ~dev_token_ok \/ session["apple_user_token"] = None THEN Return("Err")
       ELSE pc' = "create" /\ result' = result
  /\ UNCHANGED <<dest, playlist, session, i, playlist_id, found, calls, fvars, nvars, pvars>>

\* POST /v1/me/library/playlists; bail unless status.is_success(), then
\* serde_json::from_str(&body)? and v["data"][0]["id"].as_str().ok_or_else(..)?
AppleCreate ==
  /\ dest = "apple" /\ pc = "create"
  /\ \E r \in CreateResp :
       /\ calls' = Append(calls, Call("create", 0, None, <<>>, r, <<>>, None, None))
       /\ IF r = "ok"
          THEN playlist_id' = "PL1" /\ EnterLoop
          ELSE Return("Err") /\ UNCHANGED <<playlist_id, i, found>>
  /\ UNCHANGED <<dest, playlist, session, fvars, nvars, pvars>>

\* (mutant of apple_search_mode: the isrc ignored, every track searched by text)
apple_search_mode_text_only(track) == "text"

\* `if let Some(isrc) = &track.isrc { filter[isrc] } else { term search }`
apple_search_mode(track) == IF track.isrc # None THEN "isrc" ELSE "text"

\* the query of a search in the given mode
search_query(track, mode) ==
  IF mode = "isrc" THEN <<track.isrc>> ELSE <<track.title, track.artist>>

\* (mutant of AppleSearch: an ISRC search without a result falls back to a
\* text search of the same track)
AppleSearchWithFallback ==
  /\ dest = "apple" /\ pc = "search"
  /\ \E r \in SearchResp, items \in ItemLists, r2 \in SearchResp, items2 \in ItemLists :
       LET idx == loop_track(i, Len(playlist))
           track == playlist[idx]
           mode == apple_search_mode(track)
           first == Call("search", idx, mode, search_query(track, mode), r, items, None, None)
           isrc_id == IF r = "ok" THEN first_id(items) ELSE None
           fallback == mode = "isrc" /\ r \in {"reject", "ok"} /\ isrc_id = None
           second == Call("search", idx, "text", search_query(track, "text"), r2, items2, None, None)
           last == IF fallback THEN r2 ELSE r
           catalog_id == IF ~fallback THEN isrc_id
                         ELSE IF r2 = "ok" THEN first_id(items2) ELSE None
       IN /\ r # "ok" => items = <<>>
          /\ r2 # "ok" => items2 = <<>>
          /\ ~fallback => (r2 = "ok" /\ items2 = <<>>)
          /\ calls' = IF fallback THEN calls \o <<first, second>> ELSE Append(calls, first)
          /\ IF last \in {"neterr", "badbody"} THEN Return("Err") /\ UNCHANGED <<i, found>>
             ELSE IF catalog_id = None THEN Continue
             ELSE pc' = "append" /\ found' = catalog_id /\ UNCHANGED <<i, result>>
  /\ UNCHANGED <<dest, playlist, session, playlist_id, fvars, nvars, pvars>>

\* GET /v1/catalog/jp/songs?filter[isrc] or /v1/catalog/jp/search, then the
\* first song's id
AppleSearch ==
  /\ dest = "apple" /\ pc = "search"
  /\ \E r \in SearchResp, items \in ItemLists :
       LET idx == loop_track(i, Len(playlist))
           track == playlist[idx]
           mode == apple_search_mode(track)
           catalog_id == IF r = "ok" THEN first_id(items) ELSE None
       IN /\ r # "ok" => items = <<>>
          /\ calls' = Append(calls, Call("search", idx, mode,
                               search_query(track, mode), r, items, None, None))
          /\ IF r \in {"neterr", "badbody"} THEN Return("Err") /\ UNCHANGED <<i, found>>
             ELSE IF catalog_id = None THEN Continue
             ELSE pc' = "append" /\ found' = catalog_id /\ UNCHANGED <<i, result>>
  /\ UNCHANGED <<dest, playlist, session, playlist_id, fvars, nvars, pvars>>

\* (mutant of AppleAppend: a rejected append is issued a second time)
AppleAppendRetry ==
  /\ dest = "apple" /\ pc = "append"
  /\ \E r \in AppendResp :
       /\ calls' = Append(calls, Call("append", loop_track(i, Len(playlist)), None,
                            <<>>, r, <<>>, playlist_id, found))
       /\ IF r = "neterr" THEN Return("Err") /\ UNCHANGED <<i, found>>
          ELSE IF r \in {"reject", "expired"} /\ calls[Len(calls)].op # "append"
          THEN UNCHANGED <<pc, result, i, found>>
          ELSE Continue
  /\ UNCHANGED <<dest, playlist, session, playlist_id, fvars, nvars, pvars>>

\* POST /v1/me/library/playlists/{playlist_id}/tracks; only send() is checked
AppleAppend ==
  /\ dest = "apple" /\ pc = "append"
  /\ \E r \in AppendResp :
       /\ calls' = Append(calls, Call("append", loop_track(i, Len(playlist)), None,
                            <<>>, r, <<>>, playlist_id, found))
       /\ IF r = "neterr" THEN Return("Err") /\ UNCHANGED <<i, found>>
          ELSE Continue
  /\ UNCHANGED <<dest, playlist, session, playlist_id, fvars, nvars, pvars>>

create_playlist_to_apple ==
  \/ AppleStart
  \/ AppleCreate
  \/ AppleSearch
  \/ AppleAppend

\* ------------------------------------------- create_playlist_to_spotify

\* session.get("spotify_refresh_token")?.ok_or_else(..)?, then
\* env::var("SPOTIFY_CLIENT_ID")? and env::var("SPOTIFY_CLIENT_SECRET")?
SpotifyStart ==
  /\ dest = "spotify" /\ pc = "start"
  /\ \E env_ok \in BOOLEAN :
       IF session["spotify_refresh_token"] = None \/ ~env_ok THEN Return("Err")
       ELSE pc' = "token" /\ result' = result
  /\ UNCHANGED <<dest, playlist, session, i, playlist_id, found, calls, fvars, nvars, pvars>>

\* POST accounts.spotify.com/api/token, then
\* json["access_token"].as_str().ok_or_else(..)?
SpotifyToken ==
  /\ dest = "spotify" /\ pc = "token"
  /\ \E r \in CreateResp :
       /\ calls' = Append(calls, Call("token", 0, None, <<>>, r, <<>>, None, None))
       /\ IF r = "ok" THEN pc' = "me" /\ result' = result
          ELSE Return("Err")
  /\ UNCHANGED <<dest, playlist, session, i, playlist_id, found, fvars, nvars, pvars>>

\* GET /v1/me, then me["id"].as_str().unwrap()
SpotifyMe ==
  /\ dest = "spotify" /\ pc = "me"
  /\ \E r \in CreateResp :
       /\ calls' = Append(calls, Call("me", 0, None, <<>>, r, <<>>, None, None))
       /\ IF r = "ok" THEN pc' = "create" /\ result' = result
          ELSE IF r \in {"neterr", "badbody"} THEN Return("Err")
          ELSE Return("Panic")
  /\ UNCHANGED <<dest, playlist, session, i, playlist_id, found, fvars, nvars, pvars>>

\* POST /v1/users/{user_id}/playlists, then create_res["id"].as_str().unwrap()
SpotifyCreate ==
  /\ dest = "spotify" /\ pc = "create"
  /\ \E r \in CreateResp :
       /\ calls' = Append(calls, Call("create", 0, None, <<>>, r, <<>>, None, None))
       /\ IF r = "ok"
          THEN playlist_id' = "PL1" /\ EnterLoop
          ELSE /\ UNCHANGED <<playlist_id, i, found>>
               /\ IF r \in {"neterr", "badbody"} THEN Return("Err")
                  ELSE Return("Panic")
  /\ UNCHANGED <<dest, playlist, session, fvars, nvars, pvars>>

\* `if let Some(ref isrc) = track.isrc { q = isrc:.. } else { q = track:.. artist:.. }`
spotify_search_mode(track) == IF track.isrc # None THEN "isrc" ELSE "text"

\* GET /v1/search with limit=1, then the first item's uri
SpotifySearch ==
  /\ dest = "spotify" /\ pc = "search"
  /\ \E r \in SearchResp, items \in ItemLists :
       LET idx == loop_track(i, Len(playlist))
           track == playlist[idx]
           mode == spotify_search_mode(track)
           uri == IF r = "ok" THEN first_id(items) ELSE None
       IN /\ r # "ok" => items = <<>>
          /\ calls' = Append(calls, Call("search", idx, mode,
                               search_query(track, mode), r, items, None, None))
          /\ IF r \in {"neterr", "badbody"} THEN Return("Err") /\ UNCHANGED <<i, found>>
             ELSE IF uri = None THEN Continue
             ELSE pc' = "append" /\ found' = uri /\ UNCHANGED <<i, result>>
  /\ UNCHANGED <<dest, playlist, session, playlist_id, fvars, nvars, pvars>>

\* POST /v1/playlists/{new_playlist_id}/tracks; only send() is checked
SpotifyAppend ==
  /\ dest = "spotify" /\ pc = "append"
  /\ \E r \in AppendResp :
       /\ calls' = Append(calls, Call("append", loop_track(i, Len(playlist)), None,
                            <<>>, r, <<>>, playlist_id, found))
       /\ IF r = "neterr" THEN Return("Err") /\ UNCHANGED <<i, found>>
          ELSE Continue
  /\ UNCHANGED <<dest, playlist, session, playlist_id, fvars, nvars, pvars>>

create_playlist_to_spotify ==
  \/ SpotifyStart
  \/ SpotifyToken
  \/ SpotifyMe
  \/ SpotifyCreate
  \/ SpotifySearch
  \/ SpotifyAppend

\* ------------------------------------------------- the transfer handlers

\* POST /api/transfer/to/{youtube,spotify,apple}: one transfer request, its
\* payload and the session it arrives with
Init ==
  /\ dest \in Providers
  /\ playlist \in SeqsUpTo(TrackPool, MaxTracks)
  /\ session \in Sessions
  /\ pc = "start" /\ i = 0 /\ playlist_id = None /\ found = None
  /\ calls = <<>> /\ result = None
  /\ FetchIdle /\ NormIdle /\ PairIdle

Next ==
  \/ create_playlist_to_youtube
  \/ create_playlist_to_apple
  \/ create_playlist_to_spotify

Spec == Init /\ [][Next]_vars

\* ------------------------------------------------ the claims: transfers

\* what the recorded calls say
CallIdx == 1..Len(calls)
IsSearch(k) == calls[k].op = "search"
IsAppend(k) == calls[k].op = "append"
\* the destination id a recorded search call yielded
YieldOf(k) == IF calls[k].resp = "ok" THEN first_id(calls[k].items) ELSE None
SearchFailed(k) == IsSearch(k) /\ calls[k].resp \in {"neterr", "badbody", "reject"}
Searched(j) == \E k \in CallIdx : IsSearch(k) /\ calls[k].idx = j
Appended(j) == \E k \in CallIdx : IsAppend(k) /\ calls[k].idx = j
HasIsrc(j) == playlist[j].isrc # None
\* the loop is past source track j
Finished(j) == pc = "done" \/ (pc \in {"search", "append"} /\ i > j)
IdxOf(s) == [k \in 1..Len(s) |-> s[k].idx]
AppendedSeq == IdxOf(SelectSeq(calls, LAMBDA c : c.op = "append"))
MatchedSeq ==
  IdxOf(SelectSeq(calls, LAMBDA c : c.op = "search" /\ c.resp = "ok" /\ first_id(c.items) # None))
UnmatchedCount ==
  Cardinality({ j \in 1..Len(playlist) : \A k \in CallIdx : IsSearch(k) /\ calls[k].idx = j => YieldOf(k) = None })

\* C1 (as claimed): a provider failure on the search of track i does not abort
\* the transfer: once the transfer has ended every later track has been
\* searched, and track i was not appended.
C1_SearchFailureDoesNotAbort ==
  \A k \in CallIdx :
    SearchFailed(k) =>
      /\ ~Appended(calls[k].idx)
      /\ pc = "done" => \A j \in (calls[k].idx + 1)..Len(playlist) : Searched(j)

\* C2 (as claimed): once the destination playlist has been created, the
\* transfer can only end in the success outcome.
C2_FailedOnlyBeforeResolution ==
  (pc = "done" /\ playlist_id # None) => result = "Ok"

\* C3 (as claimed): a rejected playlist creation ends the transfer with an
\* error value, not a panic, and no search or append call is issued.
C3_CreateRejectedIsSingleError ==
  \A k \in CallIdx :
    (calls[k].op = "create" /\ calls[k].resp = "reject") =>
      /\ pc = "done" /\ result = "Err"
      /\ \A m \in CallIdx : ~IsSearch(m) /\ ~IsAppend(m)

C6_EveryTrackAccountedFor ==
  (pc = "done" /\ playlist_id # None) =>
    /\ result = "Ok"
    /\ \A j \in 1..Len(playlist) : Searched(j)
    /\ Len(AppendedSeq) = Len(playlist) - UnmatchedCount
    /\ \A k \in CallIdx :
         IsAppend(k) => \E m \in 1..(k - 1) :
           IsSearch(m) /\ calls[m].idx = calls[k].idx /\ YieldOf(m) = calls[k].id

\* C7 (as claimed): a failed append is not fatal: the transfer goes on to the
\* remaining tracks and ends in the success outcome.
C7_AppendFailureNonFatal ==
  \A k \in CallIdx :
    (IsAppend(k) /\ calls[k].resp \in {"neterr", "reject"} /\ pc = "done") =>
      /\ result = "Ok"
      /\ \A j \in (calls[k].idx + 1)..Len(playlist) : Searched(j)

\* a sequence of track positions in source order
Increasing(s) == \A a, b \in 1..Len(s) : a < b => s[a] < s[b]

\* C8: the append calls are issued in source order and are exactly the matched
\* tracks: the positions appended so far are the positions matched so far, in
\* increasing order, but for a match whose append is the next step.
C8_AppendsInSourceOrder ==
  /\ Increasing(MatchedSeq)
  /\ IF pc = "append"
     THEN MatchedSeq = Append(AppendedSeq, loop_track(i, Len(playlist)))
     ELSE MatchedSeq = AppendedSeq

\* C8 (witness): a transfer has ended with two tracks appended around one that
\* was not matched
C8_Witness ==
  /\ pc = "done" /\ result = "Ok"
  /\ AppendedSeq = <<1, 3>>

\* ------------------------------------------------- the playlist fetchers

\* what a provider can answer to a listing or tracks GET
ListResp == {"neterr", "badbody", "reject", "expired", "ok"}

\* The provider's side.  library[p] is the number of pages the tracks of
\* playlist p fill; pages hold PageSize entries, the listing of the playlists
\* is paged the same way.
RECURSIVE Iota(_)
Iota(n) == IF n = 0 THEN <<>> ELSE Append(Iota(n - 1), n)
Min(a, b) == IF a < b THEN a ELSE b
AllPlaylists == Iota(Len(library))
AllTracks(p) == [n \in 1..(library[p] * PageSize) |-> <<p, n>>]
\* the page a GET without cursor / offset / pageToken is answered with
FirstPage(s) == SubSeq(s, 1, Min(PageSize, Len(s)))

FetchCall(op, pl, resp) == [op |-> op, pl |-> pl, resp |-> resp, method |-> "GET"]

\* `?` on an Err, or the function's final Ok(playlists)
FetchReturn(res) == fpc' = "done" /\ fresult' = res

\* the items of the listing response, each with the total the provider's
\* metadata states for it (<<n>>), if it states one (<<>> if not)
ListingItems(r, has_total) ==
  IF r # "ok" THEN <<>>
  ELSE [n \in 1..Len(FirstPage(AllPlaylists)) |->
          [id |-> n, total |-> IF has_total[n] THEN <<Len(AllTracks(n))>> ELSE <<>>]]

\* `if let Some(items) = playlists_resp[..].as_array() { for .. }`
EnterListing(items) ==
  /\ fitems' = items
  /\ fidx' = 1
  /\ IF Len(items) = 0 THEN FetchReturn("Ok")
     ELSE fpc' = "tracks" /\ fresult' = fresult

\* playlists.push(PlaylistItem {..}), then the next item or Ok(playlists)
PushPlaylist(item) ==
  /\ playlists' = Append(playlists, item)
  /\ fidx' = fidx + 1
  /\ IF fidx + 1 > Len(fitems) THEN FetchReturn("Ok")
     ELSE fpc' = "tracks" /\ fresult' = fresult

\* GET /v1/me/library/playlists
AppleListing ==
  /\ fprovider = "apple" /\ fpc = "listing"
  /\ \E r \in ListResp, has_total \in [1..Len(FirstPage(AllPlaylists)) -> BOOLEAN] :
       /\ r # "ok" => \A n \in DOMAIN has_total : ~has_total[n]
       /\ fcalls' = Append(fcalls, FetchCall("listing", 0, r))
       /\ IF r \in {"neterr", "badbody"}
          THEN FetchReturn("Err") /\ UNCHANGED <<fitems, fidx>>
          ELSE EnterListing(ListingItems(r, has_total))
  /\ UNCHANGED <<fprovider, library, playlists, tvars, nvars, pvars>>

\* GET the playlist's tracks, tracks_resp["data"], then
\* track_count = meta.total, or tracks.len() without one
AppleTracks ==
  /\ fprovider = "apple" /\ fpc = "tracks"
  /\ \E r \in ListResp :
       LET p == fitems[fidx]
           tracks == IF r = "ok" THEN FirstPage(AllTracks(p.id)) ELSE <<>>
           track_count == IF p.total # <<>> THEN p.total[1] ELSE Len(tracks)
       IN /\ fcalls' = Append(fcalls, FetchCall("tracks", p.id, r))
          /\ IF r \in {"neterr", "badbody"}
             THEN FetchReturn("Err") /\ UNCHANGED <<playlists, fidx>>
             ELSE PushPlaylist([id |-> p.id, track_count |-> track_count, tracks |-> tracks])
  /\ UNCHANGED <<fprovider, library, fitems, tvars, nvars, pvars>>

fetch_apple_playlists ==
  \/ AppleListing
  \/ AppleTracks

\* GET /v1/me/playlists?limit=50
SpotifyListing ==
  /\ fprovider = "spotify" /\ fpc = "listing"
  /\ \E r \in ListResp, has_total \in [1..Len(FirstPage(AllPlaylists)) -> BOOLEAN] :
       /\ r # "ok" => \A n \in DOMAIN has_total : ~has_total[n]
       /\ fcalls' = Append(fcalls, FetchCall("listing", 0, r))
       /\ IF r \in {"neterr", "badbody"}
          THEN FetchReturn("Err") /\ UNCHANGED <<fitems, fidx>>
          ELSE EnterListing(ListingItems(r, has_total))
  /\ UNCHANGED <<fprovider, library, playlists, tvars, nvars, pvars>>

\* track_count = pl["tracks"]["total"].as_u64().unwrap_or(0), then
\* GET /v1/playlists/{id}/tracks and tracks_resp["items"]
SpotifyTracks ==
  /\ fprovider = "spotify" /\ fpc = "tracks"
  /\ \E r \in ListResp :
       LET p == fitems[fidx]
           track_count == IF p.total # <<>> THEN p.total[1] ELSE 0
           tracks == IF r = "ok" THEN FirstPage(AllTracks(p.id)) ELSE <<>>
       IN /\ fcalls' = Append(fcalls, FetchCall("tracks", p.id, r))
          /\ IF r \in {"neterr", "badbody"}
             THEN FetchReturn("Err") /\ UNCHANGED <<playlists, fidx>>
             ELSE PushPlaylist([id |-> p.id, track_count |-> track_count, tracks |-> tracks])
  /\ UNCHANGED <<fprovider, library, fitems, tvars, nvars, pvars>>

\* (mutant of spotify_playlists: a missing access token is replaced, through
\* the refresh token, by a new one stored in the session)
spotify_playlists_refreshing ==
  /\ fprovider = "spotify" /\ fpc = "start"
  /\ IF session["spotify_access_token"] # None
     THEN fpc' = "listing" /\ fresult' = fresult /\ session' = session
     ELSE IF session["spotify_refresh_token"] # None
     THEN /\ session' = [session EXCEPT !["spotify_access_token"] = "tok"]
          /\ fpc' = "listing" /\ fresult' = fresult
     ELSE FetchReturn("Unauthorized") /\ session' = session
  /\ UNCHANGED <<fprovider, library, fidx, fitems, playlists, fcalls, nvars, pvars>>
  /\ UNCHANGED <<dest, playlist, pc, i, playlist_id, found, calls, result>>

fetch_spotify_playlists ==
  \/ SpotifyListing
  \/ SpotifyTracks

\* GET /youtube/v3/playlists?part=snippet&mine=true&maxResults=50 (a snippet
\* states no total)
YoutubeListing ==
  /\ fprovider = "youtube" /\ fpc = "listing"
  /\ \E r \in ListResp :
       /\ fcalls' = Append(fcalls, FetchCall("listing", 0, r))
       /\ IF r \in {"neterr", "badbody"}
          THEN FetchReturn("Err") /\ UNCHANGED <<fitems, fidx>>
          ELSE EnterListing(ListingItems(r, [n \in 1..Len(FirstPage(AllPlaylists)) |-> FALSE]))
  /\ UNCHANGED <<fprovider, library, playlists, tvars, nvars, pvars>>

\* GET /youtube/v3/playlistItems?maxResults=50, tracks_resp["items"], then
\* track_count = tracks.len()
YoutubeTracks ==
  /\ fprovider = "youtube" /\ fpc = "tracks"
  /\ \E r \in ListResp :
       LET p == fitems[fidx]
           tracks == IF r = "ok" THEN FirstPage(AllTracks(p.id)) ELSE <<>>
       IN /\ fcalls' = Append(fcalls, FetchCall("tracks", p.id, r))
          /\ IF r \in {"neterr", "badbody"}
             THEN FetchReturn("Err") /\ UNCHANGED <<playlists, fidx>>
             ELSE PushPlaylist([id |-> p.id, track_count |-> Len(tracks), tracks |-> tracks])
  /\ UNCHANGED <<fprovider, library, fitems, tvars, nvars, pvars>>

fetch_youtube_playlists ==
  \/ YoutubeListing
  \/ YoutubeTracks

\* ------------------------------------------------- the playlist handlers

\* GET /api/youtube/playlists: the session's youtube_access_token, or 401
youtube_playlists ==
  /\ fprovider = "youtube" /\ fpc = "start"
  /\ IF session["youtube_access_token"] = None THEN FetchReturn("Unauthorized")
     ELSE fpc' = "listing" /\ fresult' = fresult
  /\ UNCHANGED <<fprovider, library, fidx, fitems, playlists, fcalls, tvars, nvars, pvars>>

\* GET /api/apple/playlists: make_apple_dev_token() or 500, then the
\* session's apple_user_token, or 400
apple_playlists ==
  /\ fprovider = "apple" /\ fpc = "start"
  /\ \E dev_token_ok \in BOOLEAN :
       IF ~dev_token_ok THEN FetchReturn("Err")
       ELSE IF session["apple_user_token"] = None THEN FetchReturn("BadRequest")
       ELSE fpc' = "listing" /\ fresult' = fresult
  /\ UNCHANGED <<fprovider, library, fidx, fitems, playlists, fcalls, tvars, nvars, pvars>>

\* GET /api/spotify/playlists: the session's spotify_access_token, or 401
spotify_playlists ==
  /\ fprovider = "spotify" /\ fpc = "start"
  /\ IF session["spotify_access_token"] = None THEN FetchReturn("Unauthorized")
     ELSE fpc' = "listing" /\ fresult' = fresult
  /\ UNCHANGED <<fprovider, library, fidx, fitems, playlists, fcalls, tvars, nvars, pvars>>

\* one listing request to one provider, whose library holds up to
\* MaxPlaylists playlists of up to MaxPages pages of tracks each
InitFetch ==
  /\ fprovider \in Providers
  /\ library \in SeqsUpTo(0..MaxPages, MaxPlaylists)
  /\ session \in Sessions
  /\ fpc = "start" /\ fidx = 0 /\ fitems = <<>> /\ playlists = <<>>
  /\ fcalls = <<>> /\ fresult = None
  /\ TransferIdle /\ NormIdle /\ PairIdle

NextFetch ==
  \/ youtube_playlists
  \/ apple_playlists
  \/ spotify_playlists
  \/ fetch_apple_playlists
  \/ fetch_spotify_playlists
  \/ fetch_youtube_playlists

SpecFetch == InitFetch /\ [][NextFetch]_vars

\* -------------------------------------------------- the claims: fetching

FetchCallIdx == 1..Len(fcalls)
Returned(p) == \E k \in 1..Len(playlists) : playlists[k].id = p
ReturnedTracks(p) == playlists[CHOOSE k \in 1..Len(playlists) : playlists[k].id = p].tracks

\* C9 (as claimed): a fetch whose calls were all answered returns every
\* playlist of the listing, each with the tracks of all its pages, in order,
\* whatever the number of pages.
C9_PaginationComplete ==
  (fpc = "done" /\ fresult = "Ok" /\ \A k \in FetchCallIdx : fcalls[k].resp = "ok") =>
    /\ Len(playlists) = Len(library)
    /\ \A p \in 1..Len(library) : Returned(p) /\ ReturnedTracks(p) = AllTracks(p)

\* C10 (as claimed): a failure (transport error or unparsable body) of the
\* tracks GET of one playlist does not fail the fetch: it ends Ok, with that
\* playlist returned with no tracks and every other listed playlist returned.
C10_TracksFailureIsolated ==
  \A k \in FetchCallIdx :
    (fcalls[k].op = "tracks" /\ fcalls[k].resp \in {"neterr", "badbody"} /\ fpc = "done") =>
      /\ fresult = "Ok"
      /\ Returned(fcalls[k].pl) /\ ReturnedTracks(fcalls[k].pl) = <<>>
      /\ \A n \in 1..Len(fitems) : Returned(fitems[n].id)

\* ------------------------------------------- field normalisation in the fetch
\* Strings are sequences of one-character strings.

\* the inputs are concatenations of at most MaxPieces pieces
MaxPieces == 4

Topic == <<" ", "-", " ", "T", "o", "p", "i", "c">>
WxH == <<"{", "w", "}", "x", "{", "h", "}">>
F == <<"{", "f", "}">>
S300x300 == <<"3", "0", "0", "x", "3", "0", "0">>
Jpg == <<"j", "p", "g">>
HttpsX == <<"h", "t", "t", "p", "s", ":", "/", "/", "x", "/">>
Bb == <<"b", "b", ".">>

\* channel titles: a name, the suffix, and the suffix split in two
ArtistPieces == {<<"A">>, Topic, <<" ", "-", " ", "T", "o", "p", "i">>, <<"c">>}
\* artwork urls: whole placeholders, broken placeholders and plain text
CoverPieces ==
  {HttpsX, Bb, WxH, F, <<"{", "w", "}">>, <<"x", "{", "h", "}">>, <<"{">>, <<"f", "}">>}

RECURSIVE Concat(_)
Concat(ps) == IF ps = <<>> THEN <<>> ELSE Head(ps) \o Concat(Tail(ps))

Strings(pieces) == {Concat(ps) : ps \in SeqsUpTo(pieces, MaxPieces)}

\* a JSON string field: absent (or not a string), or present with value s
Fields(pieces) ==
  {[present |-> FALSE, s |-> <<>>]} \cup {[present |-> TRUE, s |-> x] : x \in Strings(pieces)}

\* .as_str().unwrap_or("")
as_str_or_empty(f) == IF f.present THEN f.s ELSE <<>>

\* whether pat occurs in s at position k
MatchesAt(s, k, pat) ==
  k + Len(pat) - 1 <= Len(s) /\ SubSeq(s, k, k + Len(pat) - 1) = pat

\* str::ends_with
ends_with(s, suffix) ==
  Len(s) >= Len(suffix) /\ MatchesAt(s, Len(s) - Len(suffix) + 1, suffix)

\* str::trim_end_matches: the suffix is removed as long as the string ends with it
RECURSIVE trim_end_matches(_, _)
trim_end_matches(s, suffix) ==
  IF suffix # <<>> /\ ends_with(s, suffix)
  THEN trim_end_matches(SubSeq(s, 1, Len(s) - Len(suffix)), suffix)
  ELSE s

\* str::replace scanning from position k: leftmost matches, not overlapping
RECURSIVE replace_from(_, _, _, _)
replace_from(s, k, from, to) ==
  IF k > Len(s) THEN <<>>
  ELSE IF MatchesAt(s, k, from) THEN to \o replace_from(s, k + Len(from), from, to)
  ELSE <<s[k]>> \o replace_from(s, k + 1, from, to)

\* (mutant of replace: only the first match is replaced)
RECURSIVE replace_first_from(_, _, _, _)
replace_first_from(s, k, from, to) ==
  IF k > Len(s) THEN <<>>
  ELSE IF MatchesAt(s, k, from) THEN to \o SubSeq(s, k + Len(from), Len(s))
  ELSE <<s[k]>> \o replace_first_from(s, k + 1, from, to)

replace_first(s, from, to) == replace_first_from(s, 1, from, to)

\* str::replace
replace(s, from, to) == replace_from(s, 1, from, to)

\* item["snippet"]["videoOwnerChannelTitle"] to Track.artist
youtube_artist(f) ==
  LET artist == as_str_or_empty(f)
  IN  IF ends_with(artist, Topic) THEN trim_end_matches(artist, Topic) ELSE artist

\* p["attributes"]["artwork"]["url"] to PlaylistItem.cover
apple_cover(f) ==
  LET cover == as_str_or_empty(f)
  IN  IF cover # <<>> THEN replace(replace(cover, WxH, S300x300), F, Jpg) ELSE cover

\* one track of fetch_youtube_playlists: its artist
YoutubeArtist ==
  /\ npc = "start" /\ nfield = "artist"
  /\ norm' = youtube_artist(raw) /\ npc' = "done"
  /\ UNCHANGED <<nfield, raw, tvars, fvars, pvars>>

\* one playlist of fetch_apple_playlists: its cover
AppleCover ==
  /\ npc = "start" /\ nfield = "cover"
  /\ norm' = apple_cover(raw) /\ npc' = "done"
  /\ UNCHANGED <<nfield, raw, tvars, fvars, pvars>>

InitNorm ==
  /\ nfield \in {"artist", "cover"}
  /\ raw \in Fields(IF nfield = "artist" THEN ArtistPieces ELSE CoverPieces)
  /\ norm = <<>> /\ npc = "start"
  /\ TransferIdle /\ FetchIdle /\ PairIdle /\ session = LoggedInSession

NextNorm == YoutubeArtist \/ AppleCover

SpecNorm == InitNorm /\ [][NextNorm]_vars

\* ---------------------------------------------- the claims: normalisation

\* whether pat occurs somewhere in s
Contains(s, pat) == \E k \in 1..Len(s) : MatchesAt(s, k, pat)

\* C14: a channel title ending with " - Topic" is returned without that one
\* trailing suffix, everything before it kept; any other title is returned
\* unchanged.
C14_OneTopicSuffixRemoved ==
  (npc = "done" /\ nfield = "artist") =>
    IF ends_with(raw.s, Topic) THEN norm \o Topic = raw.s ELSE norm = raw.s

\* C15: the cover of an Apple playlist is the artwork url with every {w}x{h}
\* read 300x300 and every {f} read jpg, everything else kept; an absent url
\* gives the empty string; no placeholder is left in a cover.
C15_CoverPlaceholdersFilled ==
  (npc = "done" /\ nfield = "cover") =>
    /\ Len(norm) = Len(raw.s)
    /\ ~raw.present => norm = <<>>
    /\ \A k \in 1..Len(norm) :
         norm[k] =
           IF \E j \in 1..k : k < j + Len(WxH) /\ MatchesAt(raw.s, j, WxH)
           THEN S300x300[k + 1 - CHOOSE j \in 1..k : k < j + Len(WxH) /\ MatchesAt(raw.s, j, WxH)]
           ELSE IF \E j \in 1..k : k < j + Len(F) /\ MatchesAt(raw.s, j, F)
           THEN Jpg[k + 1 - CHOOSE j \in 1..k : k < j + Len(F) /\ MatchesAt(raw.s, j, F)]
           ELSE raw.s[k]
    /\ ~Contains(norm, WxH) /\ ~Contains(norm, F)

\* C15 (witness): "https://x/{w}x{h}bb.{f}" became "https://x/300x300bb.jpg"
C15_Witness ==
  /\ npc = "done" /\ nfield = "cover"
  /\ raw.s = HttpsX \o WxH \o Bb \o F
  /\ norm = HttpsX \o S300x300 \o Bb \o Jpg

\* ------------------------------------ one request, a transfer or a listing

InitAny == Init \/ InitFetch

NextAny == Next \/ NextFetch

SpecAny == InitAny /\ [][NextAny]_vars

\* ------------------------------------------------ the claims: credentials

\* the session key a transfer to the provider needs, and the one its listing needs
TransferKey(d) ==
  CASE d = "youtube" -> "youtube_access_token"
    [] d = "apple" -> "apple_user_token"
    [] d = "spotify" -> "spotify_refresh_token"
ListingKey(d) ==
  CASE d = "youtube" -> "youtube_access_token"
    [] d = "apple" -> "apple_user_token"
    [] d = "spotify" -> "spotify_access_token"

\* C11: with the destination's credential absent from the session a transfer
\* issues no provider call at all and ends with an error; and so does a
\* playlist listing of a provider whose token the session does not hold.
C11_NoCredentialNoCall ==
  /\ (pc # "idle" /\ session[TransferKey(dest)] = None) =>
       /\ calls = <<>>
       /\ pc \in {"start", "done"}
       /\ pc = "done" => result = "Err"
  /\ (fpc # "idle" /\ session[ListingKey(fprovider)] = None) =>
       /\ fcalls = <<>>
       /\ fpc \in {"start", "done"}
       /\ fpc = "done" => fresult \in {"Err", "Unauthorized", "BadRequest"}

\* C11 (witness): a transfer to Spotify has ended in an error, on a session
\* that holds every token but the spotify_refresh_token
C11_Witness ==
  /\ dest = "spotify" /\ pc = "done" /\ result = "Err" /\ calls = <<>>
  /\ session = [LoggedInSession EXCEPT !["spotify_refresh_token"] = None]

\* two recorded calls are the same request
SameRequest(a, b) ==
  a.op = b.op /\ a.idx = b.idx /\ a.mode = b.mode /\ a.q = b.q /\ a.pl = b.pl /\ a.id = b.id
\* call k is the retry of an expired call: it follows a token refresh that
\* follows the same request answered "expired"
IsRetry(k) ==
  /\ k >= 3
  /\ calls[k - 1].op = "token"
  /\ calls[k - 2].resp = "expired"
  /\ SameRequest(calls[k], calls[k - 2])

\* C12 (as claimed): once the transfer has ended, every call that was answered
\* "expired" is followed by one token refresh and one retry of the same
\* request, and a retry answered "expired" is not retried again.
C12_ExpiredRefreshRetryOnce ==
  pc = "done" =>
    \A k \in CallIdx :
      calls[k].resp = "expired" =>
        IF IsRetry(k)
        THEN ~(k + 2 <= Len(calls) /\ IsRetry(k + 2))
        ELSE k + 2 <= Len(calls) /\ IsRetry(k + 2)

\* --------------------------------------------------- the claims: matching

\* the destination id the transfer took from recorded search k: the id of the
\* append that follows it, or the id in hand when the append is the next step
Chosen(k) ==
  IF k < Len(calls) /\ IsAppend(k + 1) /\ calls[k + 1].idx = calls[k].idx THEN calls[k + 1].id
  ELSE IF k = Len(calls) /\ pc = "append" THEN found
  ELSE None

\* C13: two searches of the same source track that the provider answered
\* identically chose the same destination id, whatever their positions and the
\* tracks around them, and the id chosen from a non-empty result list is its
\* first item.
C13_MatchingDeterministic ==
  \A a \in CallIdx :
    IsSearch(a) =>
      /\ \A b \in (a + 1)..Len(calls) :
           (/\ IsSearch(b)
            /\ calls[a].resp = calls[b].resp /\ calls[a].items = calls[b].items
            /\ playlist[calls[a].idx] = playlist[calls[b].idx])
             => Chosen(a) = Chosen(b)
      /\ (calls[a].resp = "ok" /\ calls[a].items # <<>>) => Chosen(a) = calls[a].items[1]

\* C13 (witness): the same track at two positions, both searches answered with
\* the same two-item list, both appended with its first item
C13_Witness ==
  \E a, b \in CallIdx :
    /\ a < b /\ IsSearch(a) /\ IsSearch(b)
    /\ playlist[calls[a].idx] = playlist[calls[b].idx]
    /\ calls[a].items = <<"d2", "d1">> /\ calls[b].items = <<"d2", "d1">>
    /\ Chosen(a) = "d2" /\ Chosen(b) = "d2"

\* ------------------------------------------- the claims: response shapes

\* C16: whatever the shape of a provider's answer, a transfer ends with Ok or
\* with a returned error and a listing with a result of its handler: no
\* request ends in a panic.
C16_NoResponseShapePanics ==
  /\ pc = "done" => result \in {"Ok", "Err"}
  /\ fpc = "done" => fresult \in {"Ok", "Err", "Unauthorized", "BadRequest"}

\* C17: every returned playlist reports as track_count the total its listing
\* item carried, and the length of its fetched tracks when the item carried
\* none.
C17_TrackCountTotalElseLen ==
  \A k \in 1..Len(playlists) :
    playlists[k].track_count =
      IF fitems[k].total # <<>> THEN fitems[k].total[1] ELSE Len(playlists[k].tracks)

\* ------------------------------------------------ the claims: call counts

\* C18: one transfer issues at most one create call, at most one search per
\* track position and search mode, and at most one append per track position,
\* hence at most as many appends as the playlist has tracks.
C18_NothingRetried ==
  /\ \A a \in CallIdx : \A b \in (a + 1)..Len(calls) :
       calls[a].op = calls[b].op =>
         CASE calls[a].op = "create" -> FALSE
           [] calls[a].op = "search" ->
                calls[a].idx # calls[b].idx \/ calls[a].mode # calls[b].mode
           [] calls[a].op = "append" -> calls[a].idx # calls[b].idx
           [] OTHER -> TRUE
  /\ Len(SelectSeq(calls, LAMBDA c : c.op = "append")) <= Len(playlist)

\* C18 (witness): a transfer that ended after a search and an append were
\* rejected by the provider, neither of them repeated
C18_Witness ==
  /\ pc = "done" /\ result = "Ok"
  /\ \E a, b \in CallIdx :
       /\ IsSearch(a) /\ calls[a].resp = "reject"
       /\ IsAppend(b) /\ calls[b].resp = "reject"

\* C19: an append is issued exactly for the tracks whose search returned an
\* id, right after that search and with that id; a search answered with an
\* empty result list is followed by no append for its track but by the next
\* track's search, or by the end of the transfer after the last track.
C19_AppendIffSearchReturnedId ==
  /\ \A b \in CallIdx : IsAppend(b) =>
       /\ b > 1 /\ IsSearch(b - 1) /\ calls[b - 1].idx = calls[b].idx
       /\ calls[b - 1].items # <<>> /\ calls[b].id = calls[b - 1].items[1]
  /\ \A a \in CallIdx : (IsSearch(a) /\ calls[a].items # <<>>) =>
       IF a < Len(calls)
       THEN IsAppend(a + 1) /\ calls[a + 1].idx = calls[a].idx
       ELSE pc = "append" /\ found = calls[a].items[1]
  /\ \A a \in CallIdx :
       (IsSearch(a) /\ calls[a].items = <<>> /\ calls[a].resp \notin {"neterr", "badbody"}) =>
         /\ \A b \in CallIdx : IsAppend(b) => calls[b].idx # calls[a].idx
         /\ IF a < Len(calls)
            THEN IsSearch(a + 1) /\ calls[a + 1].idx = calls[a].idx + 1
            ELSE \/ pc = "search" /\ i = calls[a].idx + 1
                 \/ pc = "done" /\ result = "Ok" /\ calls[a].idx = Len(playlist)

\* C19 (witness): the first track's search found nothing and no append was
\* issued for it; the second track's search returned ids and its first one
\* was appended
C19_Witness ==
  /\ pc = "done" /\ result = "Ok" /\ Len(calls) >= 4
  /\ IsSearch(2) /\ calls[2].idx = 1 /\ calls[2].resp = "ok" /\ calls[2].items = <<>>
  /\ IsSearch(3) /\ calls[3].idx = 2 /\ calls[3].items = <<"d2", "d1">>
  /\ IsAppend(4) /\ calls[4].idx = 2 /\ calls[4].id = "d2"

\* ------------------------------------------------- the claims: call order

\* C20: every search call and every append call comes after a create call
\* that returned a playlist id, and the loop over the tracks is entered only
\* with that id in hand; appends carry it.
C20_CreateBeforeTrackWork ==
  /\ \A k \in CallIdx : (IsSearch(k) \/ IsAppend(k)) =>
       \E c \in 1..(k - 1) : calls[c].op = "create" /\ calls[c].resp = "ok"
  /\ \A k \in CallIdx : IsAppend(k) => calls[k].pl = "PL1"
  /\ pc \in {"search", "append"} => playlist_id = "PL1"

\* C20 (witness): a create call answered with an id, then the first track's
\* search and its append to the created playlist
C20_Witness ==
  \E c \in CallIdx :
    /\ c + 2 <= Len(calls)
    /\ calls[c].op = "create" /\ calls[c].resp = "ok"
    /\ IsSearch(c + 1) /\ calls[c + 1].idx = 1
    /\ IsAppend(c + 2) /\ calls[c + 2].idx = 1 /\ calls[c + 2].pl = "PL1"

\* ------------------------------------------------ two concurrent transfers
\* Two invocations of the transfer functions run interleaved, one provider
\* call at a time. Each invocation has its own locals (invs[p]); the providers
\* hand out a fresh playlist id at every successful create call.

\* the tracks of a playlist transferred concurrently
MaxPairTracks == 2

\* the sessions the two requests arrive with
PairSessions == {LoggedOutSession, LoggedInSession}

\* the locals of invocation p with some of them assigned
Assign(p, new) ==
  invs' = [invs EXCEPT ![p] = [f \in DOMAIN invs[p] |->
                                 IF f \in DOMAIN new THEN new[f] ELSE invs[p][f]]]

\* return Ok(()) / Err(..) / a panic, from invocation p
PairReturn(p, res) == Assign(p, [pc |-> "done", result |-> res])

\* the loop of invocation p goes to track k, or ends after the last one
PairLoop(p, k, more) ==
  IF k > Len(invs[p].playlist)
  THEN Assign(p, [pc |-> "done", result |-> "Ok", i |-> k, found |-> None] @@ more)
  ELSE Assign(p, [pc |-> "search", i |-> k, found |-> None] @@ more)

\* (mutant of append_target: the playlist created last, by either invocation)
append_target_latest(p) == Len(owner)

\* the playlist_id local that the append call of invocation p names
append_target(p) == invs[p].playlist_id[1]

\* the session lookup (and the dev token or the env vars) before the first call
PairStart(p) ==
  /\ invs[p].pc = "start"
  /\ \E local_ok \in BOOLEAN :
       /\ invs[p].dest = "youtube" => local_ok
       /\ IF invs[p].session[TransferKey(invs[p].dest)] = None \/ ~local_ok
          THEN PairReturn(p, "Err")
          ELSE Assign(p, [pc |-> IF invs[p].dest = "spotify" THEN "token" ELSE "create"])
  /\ UNCHANGED <<owner, tvars, fvars, nvars>>

\* Spotify only: the token refresh, then GET /v1/me with its unwrap()
PairSpotifyPrelude(p) ==
  /\ invs[p].pc \in {"token", "me"}
  /\ \E r \in CreateResp :
       IF r = "ok" THEN Assign(p, [pc |-> IF invs[p].pc = "token" THEN "me" ELSE "create"])
       ELSE IF invs[p].pc = "token" \/ r \in {"neterr", "badbody"} THEN PairReturn(p, "Err")
       ELSE PairReturn(p, "Panic")
  /\ UNCHANGED <<owner, tvars, fvars, nvars>>

\* the create call: the provider answers with a fresh playlist id, kept in
\* the invocation's playlist_id
PairCreate(p) ==
  /\ invs[p].pc = "create"
  /\ \E r \in CreateResp :
       IF r = "ok"
       THEN /\ owner' = Append(owner, p)
            /\ PairLoop(p, 1, [playlist_id |-> <<Len(owner) + 1>>])
       ELSE /\ owner' = owner
            /\ IF invs[p].dest = "spotify" /\ r \notin {"neterr", "badbody"}
               THEN PairReturn(p, "Panic")
               ELSE PairReturn(p, "Err")
  /\ UNCHANGED <<tvars, fvars, nvars>>

\* the search call of the current track
PairSearch(p) ==
  /\ invs[p].pc = "search"
  /\ \E r \in SearchResp, items \in ItemLists :
       /\ r # "ok" => items = <<>>
       /\ IF r \in {"neterr", "badbody"} THEN PairReturn(p, "Err")
          ELSE IF r # "ok" \/ first_id(items) = None
          THEN PairLoop(p, invs[p].i + 1, <<>>)
          ELSE Assign(p, [pc |-> "append", found |-> first_id(items)])
  /\ UNCHANGED <<owner, tvars, fvars, nvars>>

\* the append call of the current track, to the invocation's playlist_id
PairAppend(p) ==
  /\ invs[p].pc = "append"
  /\ \E r \in AppendResp :
       IF r = "neterr"
       THEN Assign(p, [pc |-> "done", result |-> "Err",
                       targets |-> invs[p].targets \cup {append_target(p)}])
       ELSE PairLoop(p, invs[p].i + 1,
                     [targets |-> invs[p].targets \cup {append_target(p)}])
  /\ UNCHANGED <<owner, tvars, fvars, nvars>>

InitPair ==
  /\ invs \in [Invocations ->
       { [IdleInvocation EXCEPT !.dest = d, !.playlist = pl, !.session = s, !.pc = "start"] :
           d \in Providers, pl \in SeqsUpTo(TrackPool, MaxPairTracks), s \in PairSessions }]
  /\ owner = <<>>
  /\ TransferIdle /\ FetchIdle /\ NormIdle /\ session = LoggedOutSession

NextPair ==
  \E p \in Invocations :
    \/ PairStart(p)
    \/ PairSpotifyPrelude(p)
    \/ PairCreate(p)
    \/ PairSearch(p)
    \/ PairAppend(p)

SpecPair == InitPair /\ [][NextPair]_vars

\* ---------------------------------------------- the claims: concurrency

\* C21: in every interleaving of two transfers each invocation that got a
\* playlist id holds the id its own create call returned, different from the
\* other invocation's, every append call it has issued names that id, and a
\* step of one invocation leaves the other invocation's locals as they are.
C21_TransfersIsolated ==
  /\ [](\A p \in Invocations :
          /\ invs[p].playlist_id # <<>> =>
               /\ invs[p].playlist_id[1] \in 1..Len(owner)
               /\ owner[invs[p].playlist_id[1]] = p
          /\ \A id \in invs[p].targets : id \in 1..Len(owner) /\ owner[id] = p)
  /\ [][\A p, q \in Invocations : (p # q /\ invs'[p] # invs[p]) => invs'[q] = invs[q]]_vars

\* C21 (witness): both transfers ended Ok, their create calls answered in the
\* order 2, 1, and each has appended to its own playlist only
C21_Witness ==
  /\ owner = <<2, 1>>
  /\ invs[1].pc = "done" /\ invs[1].result = "Ok" /\ invs[1].targets = {2}
  /\ invs[2].pc = "done" /\ invs[2].result = "Ok" /\ invs[2].targets = {1}

\* ------------------------------------------------ the claims: termination

\* one transfer whose provider calls all return: a step that can be taken is
\* eventually taken
SpecLive == Init /\ [][Next]_vars /\ WF_vars(Next)

\* C22: provided every provider call returns, a transfer ends with the
\* success outcome or with a returned error, having issued at most one create
\* call, one search per track and mode, and one append per track.
C22_TransferTerminates ==
  <>(/\ pc = "done" /\ result \in {"Ok", "Err"}
     /\ \A a \in CallIdx : \A b \in (a + 1)..Len(calls) :
          (calls[a].op = calls[b].op /\ calls[a].op \in {"create", "search", "append"}) =>
            /\ calls[a].op # "create"
            /\ calls[a].idx # calls[b].idx \/ calls[a].mode # calls[b].mode)

\* -------------------------------------------------- the claims: read-only

\* C23: a listing issues only GET calls that read the playlists or the tracks
\* of a playlist, no call of a transfer (create, search, append), and no step
\* of it changes the session.
C23_ListingReadOnly ==
  /\ [](/\ calls = <<>>
        /\ \A k \in FetchCallIdx :
             fcalls[k].op \in {"listing", "tracks"} /\ fcalls[k].method = "GET")
  /\ [][session' = session]_vars

\* C23 (witness): a listing of a logged-in session has returned after reading
\* the playlists and the tracks of one
C23_Witness ==
  /\ fpc = "done" /\ fresult = "Ok" /\ session = LoggedInSession
  /\ \E k \in FetchCallIdx : fcalls[k].op = "tracks" /\ fcalls[k].resp = "ok"

\* --------------------------------------------------- the session handlers
\* One cookie session: logins, token saves and logouts in any order, and
\* between them transfer and listing requests, one at a time.

\* the tracks of a playlist transferred, and the playlists of a library
\* listed, in a session
MaxSessionTracks == 1

\* GET /api/login/status
login_status(s) ==
  [apple |-> s["apple_user_token"] # None,
   spotify |-> s["spotify_access_token"] # None,
   youtube |-> s["youtube"] = "true"]

\* no transfer or listing is being served: the session a request works with
\* is the cookie it arrived with, so the requests are taken one after another
NoRequest == pc = "idle" /\ fpc = "idle"

\* the transfer and the listing are left as they are
RequestsUnchanged ==
  UNCHANGED <<dest, playlist, pc, i, playlist_id, found, calls, result, fvars, nvars, pvars>>

\* what a callback meets: no code in the request, or the token endpoint's
\* answer to the code: no answer, no JSON, or JSON with neither, one or both
\* of access_token and refresh_token
CallbackAnswers == {"nocode", "neterr", "badbody", "none", "acc", "rf", "both"}

\* GET or POST /api/login/{service}/callback: the flag of the service, then
\* for Spotify and YouTube, with a code, the tokens of the token endpoint's
\* answer; send().await.unwrap() and json().await.unwrap() panic, and the
\* session of a request that panics is not written back
login_callback ==
  /\ NoRequest
  /\ \E service \in Providers, answer \in CallbackAnswers :
       LET flagged == [session EXCEPT ![service] = "true"]
           prefix == IF service = "spotify" THEN "spotify" ELSE "youtube"
           with_acc == IF answer \in {"acc", "both"}
                       THEN [flagged EXCEPT ![prefix \o "_access_token"] = "tok"]
                       ELSE flagged
           with_rf == IF answer \in {"rf", "both"}
                      THEN [with_acc EXCEPT ![prefix \o "_refresh_token"] = "tok"]
                      ELSE with_acc
       IN  /\ service = "apple" => answer = "nocode"
           /\ session' = IF service = "apple" \/ answer = "nocode" THEN flagged
                         ELSE IF answer \in {"neterr", "badbody"} THEN session
                         ELSE with_rf
  /\ RequestsUnchanged

\* POST /api/apple/usertoken
save_user_token ==
  /\ NoRequest
  /\ session' = [session EXCEPT !["apple_user_token"] = "tok"]
  /\ RequestsUnchanged

\* the second handler that stores the Apple user token
save_apple_user_token ==
  /\ NoRequest
  /\ session' = [session EXCEPT !["apple_user_token"] = "tok"]
  /\ RequestsUnchanged

\* POST /api/logout/{service}: session.remove(&service)
logout(service) ==
  /\ NoRequest
  /\ session' = [session EXCEPT ![service] = None]
  /\ RequestsUnchanged

\* (mutant of logout_all: only the flags of the services are removed)
logout_all_flags_only ==
  /\ NoRequest
  /\ session' = [k \in SessionKeys |->
                   IF k \in {"apple", "spotify", "youtube"} THEN None ELSE session[k]]
  /\ RequestsUnchanged

\* POST /api/logout_all: every key is removed
logout_all ==
  /\ NoRequest
  /\ session' = [k \in SessionKeys |-> None]
  /\ RequestsUnchanged

\* POST /api/transfer/to/{dest} arrives
transfer_request ==
  /\ NoRequest
  /\ dest' \in Providers
  /\ playlist' \in SeqsUpTo(TrackPool, MaxSessionTracks)
  /\ pc' = "start" /\ i' = 0 /\ playlist_id' = None /\ found' = None
  /\ calls' = <<>> /\ result' = None
  /\ fprovider' = "apple" /\ library' = <<>> /\ fpc' = "idle" /\ fidx' = 0
  /\ fitems' = <<>> /\ playlists' = <<>> /\ fcalls' = <<>> /\ fresult' = None
  /\ UNCHANGED <<session, nvars, pvars>>

\* GET /api/{provider}/playlists arrives
listing_request ==
  /\ NoRequest
  /\ fprovider' \in Providers
  /\ library' \in SeqsUpTo({1}, MaxSessionTracks)
  /\ fpc' = "start" /\ fidx' = 0 /\ fitems' = <<>> /\ playlists' = <<>>
  /\ fcalls' = <<>> /\ fresult' = None
  /\ dest' = "apple" /\ playlist' = <<>>
  /\ pc' = "idle" /\ i' = 0 /\ playlist_id' = None /\ found' = None
  /\ calls' = <<>> /\ result' = None
  /\ UNCHANGED <<session, nvars, pvars>>

\* the handler of the transfer or listing sends its response: Ok(..) => 200,
\* Err(e) => 500 or the early 400 / 401; its locals are gone
respond ==
  /\ pc = "done" \/ fpc = "done"
  /\ dest' = "apple" /\ playlist' = <<>>
  /\ pc' = "idle" /\ i' = 0 /\ playlist_id' = None /\ found' = None
  /\ calls' = <<>> /\ result' = None
  /\ fprovider' = "apple" /\ library' = <<>> /\ fpc' = "idle" /\ fidx' = 0
  /\ fitems' = <<>> /\ playlists' = <<>> /\ fcalls' = <<>> /\ fresult' = None
  /\ UNCHANGED <<session, nvars, pvars>>

InitSession ==
  /\ session = LoggedOutSession
  /\ TransferIdle /\ FetchIdle /\ NormIdle /\ PairIdle

NextSession ==
  \/ login_callback
  \/ save_user_token
  \/ save_apple_user_token
  \/ \E service \in Providers : logout(service)
  \/ logout_all
  \/ transfer_request
  \/ listing_request
  \/ respond
  \/ Next
  \/ NextFetch

SpecSession == InitSession /\ [][NextSession]_vars

\* ------------------------------------------------- the claims: the session

\* the session keys of a service: its flag and its tokens
ServiceKeys(service) ==
  CASE service = "apple" -> {"apple", "apple_user_token"}
    [] service = "spotify" -> {"spotify", "spotify_access_token", "spotify_refresh_token"}
    [] service = "youtube" -> {"youtube", "youtube_access_token", "youtube_refresh_token"}

\* the session holds no credential a transfer or a listing asks for
NoCredentials(s) ==
  \A service \in Providers : s[TransferKey(service)] = None /\ s[ListingKey(service)] = None

\* C24: whenever login_status reports a provider as logged in, the session
\* holds the credential its listing reads and the one its transfer reads.
C24_LoggedInHasCredentials ==
  \A service \in Providers :
    login_status(session)[service] =>
      session[ListingKey(service)] # None /\ session[TransferKey(service)] # None

\* C25: a logout of one service leaves login_status reporting that service as
\* not logged in, and the login state and the keys of the other services as
\* they were.
C25_LogoutLogsOut ==
  [][\A service \in Providers :
       logout(service) =>
         /\ ~login_status(session')[service]
         /\ \A other \in Providers \ {service} :
              /\ login_status(session')[other] = login_status(session)[other]
              /\ \A k \in ServiceKeys(other) : session'[k] = session[k]]_vars

\* C26: logout_all leaves login_status reporting no provider as logged in and
\* the session without credentials; the session stays so until a login
\* callback or a token save; and on such a session every transfer and every
\* listing ends in its first step with an error, no provider call issued.
C26_LogoutAllLocksOut ==
  /\ [][logout_all =>
          /\ \A service \in Providers : ~login_status(session')[service]
          /\ NoCredentials(session')]_vars
  /\ [][(NoCredentials(session)
           /\ ~(login_callback \/ save_user_token \/ save_apple_user_token))
          => NoCredentials(session')]_vars
  /\ [][(NoCredentials(session) /\ pc = "start" /\ pc' # "start") =>
          (pc' = "done" /\ result' = "Err" /\ calls' = <<>>)]_vars
  /\ [][(NoCredentials(session) /\ fpc = "start" /\ fpc' # "start") =>
          (/\ fpc' = "done" /\ fcalls' = <<>>
           /\ fresult' \in {"Err", "Unauthorized", "BadRequest"})]_vars

\* C26 (witness): on the session with every key removed a transfer to YouTube
\* has ended with an error and no provider call
C26_Witness ==
  /\ session = LoggedOutSession
  /\ dest = "youtube" /\ pc = "done" /\ result = "Err" /\ calls = <<>>

====
